---- MODULE Spec2Model ----
(***************************************************************************)
(* Tabalchi (src/Tabalchi/main.py): the notation parser BolParser.parse,   *)
(* the BeatRange interval model and the registries they read.              *)
(*                                                                         *)
(* Text is modelled as a sequence of one-character strings, so that        *)
(* str.split, str.strip, str.replace, str.count and str.startswith are     *)
(* computed character by character as Python computes them.                *)
(*                                                                         *)
(* Conventions of the translation:                                         *)
(*  - an exception that leaves BolParser.parse is a final value of pc      *)
(*    named after the place that raised it; no Bol is returned then;       *)
(*  - sorted(ranges, lambda range: range.begin) is modelled as the sort by *)
(*    begin that the lambda states, and SpeedClasses.generator as the      *)
(*    number random.randint drew when the class was registered (the source *)
(*    passes the key positionally and stores the drawn number, not a       *)
(*    callable);                                                           *)
(*  - regularChakradarValidityCheck and BeatRange.getSubsequence are       *)
(*    modelled as written: the first reads bol.beats.phrases of a list,    *)
(*    the second reads its local 'range' before the assignment, so every   *)
(*    call of either raises;                                               *)
(*  - so are fixedAssembler (it reads the unbound name tihai) and the two  *)
(*    tihai checks bedamTihaiValidityCheck and damdarTihaiValidityCheck    *)
(*    (they read bol.beats.phrases as well);                               *)
(*  - warnings.warn is modelled under the default warnings filter: the     *)
(*    message is issued and control continues;                             *)
(*  - syllable weights are exact rationals <<numerator, denominator>>; the *)
(*    floats of the source are exact for the denominators that occur here  *)
(*    (1 and 2).                                                           *)
(***************************************************************************)
EXTENDS Integers, Sequences, FiniteSets, TLC

(***************************************************************************)
(* State.                                                                  *)
(***************************************************************************)
VARIABLES
  registeredPhrases,  \* Phrase.registeredPhrases: id -> phrase
  registeredTaals,    \* Taal.registeredTaals: name -> taal
  registeredJatis,    \* Jati.registeredJatis: name -> jati
  registeredSpeeds,   \* SpeedClasses.registeredSpeeds: name -> speed class
  registeredTypes,    \* CompositionType.registeredTypes: name -> composition type
  file,               \* the parsed JSON of the .tabla file (rawData)
  pc,                 \* where BolParser.parse is, or the exception that ended it
  compositionType,    \* locals of BolParser.parse
  taal,
  speed,
  jati,
  segmentList,
  warned,             \* whether warnings.warn was called
  completeBolString,
  totalBeats,
  beatPartition,
  i,                  \* index of the beat loop: beats finalized so far
  finalizedBeats,
  parsedResult,
  method,             \* the BeatRange classmethod that is called, its
  ranges,             \* arguments and its result
  totalBeatsArg,
  beginArg,
  endArg,
  ret

vars ==
  << registeredPhrases, registeredTaals, registeredJatis, registeredSpeeds,
     registeredTypes, file, pc, compositionType, taal, speed, jati, segmentList, warned,
     completeBolString, totalBeats, beatPartition, i, finalizedBeats,
     parsedResult, method, ranges, totalBeatsArg, beginArg, endArg, ret >>

rangeCall == << method, ranges, totalBeatsArg, beginArg, endArg, ret >>

registries ==
  << registeredPhrases, registeredTaals, registeredJatis, registeredSpeeds,
     registeredTypes >>

(***************************************************************************)
(* Python str methods on sequences of characters.                          *)
(***************************************************************************)
\* str.count: the number of occurrences of the character c
Count(s, c) == Cardinality({k \in DOMAIN s : s[k] = c})

\* str.split: the pieces between the occurrences of c, empty pieces kept
Split(s, c) ==
  LET at == SelectSeq([k \in DOMAIN s |-> k], LAMBDA k : s[k] = c)
      cuts == <<0>> \o at \o <<Len(s) + 1>>
  IN  [j \in 1..(Len(at) + 1) |-> SubSeq(s, cuts[j] + 1, cuts[j + 1] - 1)]

RECURSIVE Join(_, _)
Join(parts, c) ==
  IF parts = <<>> THEN <<>>
  ELSE IF Len(parts) = 1 THEN parts[1]
  ELSE parts[1] \o <<c>> \o Join(Tail(parts), c)

RECURSIVE LStrip(_)
LStrip(s) == IF s # <<>> /\ Head(s) = " " THEN LStrip(Tail(s)) ELSE s

RECURSIVE RStrip(_)
RStrip(s) ==
  IF s # <<>> /\ s[Len(s)] = " " THEN RStrip(SubSeq(s, 1, Len(s) - 1)) ELSE s

Strip(s) == RStrip(LStrip(s))

\* str.replace: the occurrences of old, found from the left and not
\* overlapping, become new
RECURSIVE Replace(_, _, _)
Replace(s, old, new) ==
  LET hits == {k \in 1..(Len(s) - Len(old) + 1) : SubSeq(s, k, k + Len(old) - 1) = old}
  IN  IF hits = {} THEN s
      ELSE LET first == CHOOSE k \in hits : \A other \in hits : k <= other
           IN  SubSeq(s, 1, first - 1) \o new
                 \o Replace(SubSeq(s, first + Len(old), Len(s)), old, new)

StartsWith(s, c) == s # <<>> /\ Head(s) = c

lowerCase ==
  "A" :> "a" @@ "B" :> "b" @@ "C" :> "c" @@ "D" :> "d" @@ "E" :> "e" @@ "F" :> "f" @@
  "G" :> "g" @@ "H" :> "h" @@ "I" :> "i" @@ "J" :> "j" @@ "K" :> "k" @@ "L" :> "l" @@
  "M" :> "m" @@ "N" :> "n" @@ "O" :> "o" @@ "P" :> "p" @@ "Q" :> "q" @@ "R" :> "r" @@
  "S" :> "s" @@ "T" :> "t" @@ "U" :> "u" @@ "V" :> "v" @@ "W" :> "w" @@ "X" :> "x" @@
  "Y" :> "y" @@ "Z" :> "z"

Lower(s) ==
  [k \in DOMAIN s |-> IF s[k] \in DOMAIN lowerCase THEN lowerCase[s[k]] ELSE s[k]]

Range(f) == {f[k] : k \in DOMAIN f}

(***************************************************************************)
(* The Phrase registry and its built-in tables.                            *)
(***************************************************************************)
vocabInitializer ==
  << [mainID |-> <<"g", "e">>, syllables |-> 1, position |-> "baiyan", aliases |-> << <<"g", "a">>, <<"g", "h", "e", "t">>, <<"g", "a", "t">> >>],
     [mainID |-> <<"k", "e">>, syllables |-> 1, position |-> "baiyan", aliases |-> << <<"k", "i">>, <<"k", "a">> >>],
     [mainID |-> <<"k", "a", "t">>, syllables |-> 1, position |-> "baiyan", aliases |-> <<  >>],
     [mainID |-> <<"g", "h", "e", "n">>, syllables |-> 1, position |-> "baiyan", aliases |-> <<  >>],
     [mainID |-> <<"n", "a">>, syllables |-> 1, position |-> "daiyan", aliases |-> <<  >>],
     [mainID |-> <<"t", "a">>, syllables |-> 1, position |-> "daiyan", aliases |-> <<  >>],
     [mainID |-> <<"t", "i", "n">>, syllables |-> 1, position |-> "daiyan", aliases |-> <<  >>],
     [mainID |-> <<"t", "h", "u", "n">>, syllables |-> 1, position |-> "daiyan", aliases |-> <<  >>],
     [mainID |-> <<"t", "e">>, syllables |-> 1, position |-> "daiyan", aliases |-> << <<"t", "i">>, <<"t", "i", "t">>, <<"t", "e", "t">> >>],
     [mainID |-> <<"n", "e">>, syllables |-> 1, position |-> "daiyan", aliases |-> << <<"r", "e">>, <<"r", "a">> >>],
     [mainID |-> <<"d", "i">>, syllables |-> 1, position |-> "daiyan", aliases |-> <<  >>],
     [mainID |-> <<"t", "e", "r", "e">>, syllables |-> 2, position |-> "daiyan", aliases |-> <<  >>],
     [mainID |-> <<"t", "e", "t", "e">>, syllables |-> 2, position |-> "daiyan", aliases |-> <<  >>],
     [mainID |-> <<"s">>, syllables |-> 1, position |-> "both", aliases |-> <<  >>] >>

compositeInitializer ==
  << [mainID |-> <<"d", "h", "a">>, componentIDs |-> << <<"g", "e">>, <<"n", "a">> >>, aliases |-> <<  >>],
     [mainID |-> <<"d", "h", "i", "n">>, componentIDs |-> << <<"g", "e">>, <<"t", "i", "n">> >>, aliases |-> << <<"g", "r", "a", "n">> >>],
     [mainID |-> <<"d", "h", "e", "t">>, componentIDs |-> << <<"g", "e">>, <<"t", "e", "t">> >>, aliases |-> << <<"d", "h", "e">> >>],
     [mainID |-> <<"d", "h", "e", "r", "e">>, componentIDs |-> << <<"g", "e">>, <<"t", "e", "r", "e">> >>, aliases |-> <<  >>],
     [mainID |-> <<"d", "h", "e", "t", "e">>, componentIDs |-> << <<"g", "e">>, <<"t", "e", "t", "e">> >>, aliases |-> <<  >>],
     [mainID |-> <<"k", "r", "e">>, componentIDs |-> << <<"k", "a", "t">>, <<"t", "e">> >>, aliases |-> <<  >>],
     [mainID |-> <<"k", "r", "a", "n">>, componentIDs |-> << <<"k", "e">>, <<"t", "a">> >>, aliases |-> <<  >>] >>

sequentialInitializer ==
  << [mainID |-> <<"t", "e", "r", "e", "k", "i", "t", "e">>, componentIDs |-> << <<"t", "e", "t", "e">>, <<"k", "i">>, <<"t", "e">> >>, position |-> "both", aliases |-> <<  >>],
     [mainID |-> <<"g", "a", "d", "i", "g", "e", "n", "e">>, componentIDs |-> << <<"g", "a">>, <<"d", "i">>, <<"g", "e">>, <<"n", "e">> >>, position |-> "both", aliases |-> <<  >>],
     [mainID |-> <<"n", "a", "g", "e", "t", "e", "t", "e">>, componentIDs |-> << <<"n", "a">>, <<"g", "e">>, <<"t", "e", "t", "e">> >>, position |-> "both", aliases |-> <<  >>],
     [mainID |-> <<"k", "i", "t", "e", "t", "a", "k", "a">>, componentIDs |-> << <<"k", "i">>, <<"t", "e", "t", "e">>, <<"k", "a">> >>, position |-> "both", aliases |-> <<  >>],
     [mainID |-> <<"d", "h", "e", "r", "e", "d", "h", "e", "r", "e">>, componentIDs |-> << <<"d", "h", "e", "r", "e">>, <<"d", "h", "e", "r", "e">> >>, position |-> "both", aliases |-> <<  >>],
     [mainID |-> <<"t", "e", "r", "e", "t", "e", "r", "e">>, componentIDs |-> << <<"t", "e", "r", "e">>, <<"t", "e", "r", "e">> >>, position |-> "daiyan", aliases |-> <<  >>] >>

\* dict.update({key: val}) for every key of keys
Update(reg, keys, val) ==
  [x \in (DOMAIN reg) \cup keys |-> IF x \in keys THEN val ELSE reg[x]]

\* Phrase.__init__: the phrase object, and its registration under every id
Phrase(mainID, syllables, position, aliases) ==
  [ids |-> <<Lower(mainID)>> \o aliases, syllables |-> syllables,
   position |-> position]

RegisterPhrase(reg, p) == Update(reg, Range(p.ids), p)

Max(a, b) == IF a >= b THEN a ELSE b

\* Phrase.createCompositePhrase: both components registered, on different drums
CompositeAllowed(reg, e) ==
  /\ Len(e.componentIDs) = 2
  /\ \A k \in 1..2 : e.componentIDs[k] \in DOMAIN reg
  /\ reg[e.componentIDs[1]].position # reg[e.componentIDs[2]].position
  /\ \A k \in 1..2 : reg[e.componentIDs[k]].position \in {"baiyan", "daiyan"}

createCompositePhrase(reg, e) ==
  Phrase(e.mainID,
         Max(reg[e.componentIDs[1]].syllables, reg[e.componentIDs[2]].syllables),
         "both drums", e.aliases)

\* Phrase.createSequentialPhrase: syllables are the sum over the components
RECURSIVE SumSyllables(_, _)
SumSyllables(reg, componentIDs) ==
  IF componentIDs = <<>> THEN 0
  ELSE reg[Head(componentIDs)].syllables + SumSyllables(reg, Tail(componentIDs))

SequentialAllowed(reg, e) == \A k \in DOMAIN e.componentIDs : e.componentIDs[k] \in DOMAIN reg

createSequentialPhrase(reg, e) ==
  Phrase(e.mainID, SumSyllables(reg, e.componentIDs), e.position, e.aliases)

\* the three registration loops of the BolParser class body
RECURSIVE RegisterVocab(_, _)
RegisterVocab(reg, table) ==
  IF table = <<>> THEN reg
  ELSE LET e == Head(table)
       IN  RegisterVocab(
             RegisterPhrase(reg, Phrase(e.mainID, e.syllables, e.position, e.aliases)),
             Tail(table))

RECURSIVE RegisterComposites(_, _)
RegisterComposites(reg, table) ==
  IF table = <<>> \/ ~CompositeAllowed(reg, Head(table)) THEN reg
  ELSE RegisterComposites(RegisterPhrase(reg, createCompositePhrase(reg, Head(table))),
                          Tail(table))

RECURSIVE RegisterSequentials(_, _)
RegisterSequentials(reg, table) ==
  IF table = <<>> \/ ~SequentialAllowed(reg, Head(table)) THEN reg
  ELSE RegisterSequentials(RegisterPhrase(reg, createSequentialPhrase(reg, Head(table))),
                           Tail(table))

BuiltinPhrases ==
  RegisterSequentials(
    RegisterComposites(RegisterVocab(<<>>, vocabInitializer), compositeInitializer),
    sequentialInitializer)

(***************************************************************************)
(* Taal, Jati and SpeedClasses registries.                                 *)
(***************************************************************************)
\* Taal.__init__: the taal object; it is registered under its name
Taal(e) == [beats |-> e.beats, taali |-> e.taali, khali |-> e.khali, id |-> e.name]

\* entries of BolParser.taalInitializer, in table order: those with 3, 6 and 9
\* beats that the compositions below can fill, and the two entries named At
taalInitializer ==
  << [beats |-> 3, name |-> "Sadanand", taali |-> <<1>>, khali |-> <<>>],
     [beats |-> 6, name |-> "Dadra", taali |-> <<1>>, khali |-> <<4>>],
     [beats |-> 9, name |-> "Basant", taali |-> <<1, 2, 3, 4, 6, 8>>,
      khali |-> <<5, 7, 9>>],
     [beats |-> 10, name |-> "At", taali |-> <<1, 4, 7>>, khali |-> <<9>>],
     [beats |-> 14, name |-> "At", taali |-> <<1, 6, 11, 13>>, khali |-> <<4, 9>>] >>

RECURSIVE RegisterTaals(_, _)
RegisterTaals(reg, table) ==
  IF table = <<>> THEN reg
  ELSE RegisterTaals(Update(reg, {Head(table).name}, Taal(Head(table))), Tail(table))

BuiltinTaals == RegisterTaals(<<>>, taalInitializer)

\* Jati.__init__ over BolParser.jatiInitializer
Jati(e) == [syllables |-> e.syllables, id |-> e.name]

jatiInitializer ==
  << [syllables |-> 3, name |-> "Tisra"],
     [syllables |-> 4, name |-> "Chatusra"],
     [syllables |-> 5, name |-> "Khanda"],
     [syllables |-> 7, name |-> "Mishra"],
     [syllables |-> 9, name |-> "Sankeerna"] >>

RECURSIVE RegisterJatis(_, _)
RegisterJatis(reg, table) ==
  IF table = <<>> THEN reg
  ELSE RegisterJatis(Update(reg, {Head(table).name}, Jati(Head(table))), Tail(table))

BuiltinJatis == RegisterJatis(<<>>, jatiInitializer)

\* BolParser.speedInitializer: the membership predicate of each speed class
\* and the interval random.randint draws from when the class is registered
speedNames == <<"Vilambit", "Madhya", "Drut">>

inClassCheck(name, x) ==
  CASE name = "Vilambit" -> x <= 60
    [] name = "Madhya"   -> x > 60 /\ x <= 120
    [] name = "Drut"     -> x > 120

\* the draws of random.randint(lo, hi) that the model follows: both ends
randint(lo, hi) == {lo, hi}

speedDraws ==
  [Vilambit : randint(0, 60), Madhya : randint(60, 120), Drut : randint(120, 300)]

\* SpeedClasses.__init__ for the three classes, given the three draws
SpeedClasses(draw) ==
  [name \in Range(speedNames) |-> [generator |-> draw[name], id |-> name]]

\* SpeedClasses.getSpeedClassFromBPM: the first class, in registration order,
\* whose predicate holds
getSpeedClassFromBPM(bpm) ==
  speedNames[CHOOSE k \in DOMAIN speedNames :
               /\ inClassCheck(speedNames[k], bpm)
               /\ \A j \in 1..(k - 1) : ~inClassCheck(speedNames[j], bpm)]

(***************************************************************************)
(* BeatRange.                                                              *)
(***************************************************************************)
BeatRange(begin, end) == [begin |-> begin, end |-> end]

\* the assertion of BeatRange.__init__
BeatRangeAllowed(begin, end) == begin < end

Digits == <<"0", "1", "2", "3", "4", "5", "6", "7", "8", "9">>

IsInt(s) == s # <<>> /\ \A k \in DOMAIN s : s[k] \in Range(Digits)

DigitValue(c) == (CHOOSE k \in DOMAIN Digits : Digits[k] = c) - 1

RECURSIVE IntOf(_)
IntOf(s) ==
  IF s = <<>> THEN 0
  ELSE 10 * IntOf(SubSeq(s, 1, Len(s) - 1)) + DigitValue(s[Len(s)])

\* BeatRange.fromString: whether "num1-num2" yields a range, and the range
fromStringAllowed(spec) ==
  LET numbers == Split(spec, "-")
  IN  /\ Len(numbers) >= 2
      /\ IsInt(numbers[1]) /\ IsInt(numbers[2])
      /\ BeatRangeAllowed(IntOf(numbers[1]), IntOf(numbers[2]))

fromString(spec) ==
  LET numbers == Split(spec, "-")
  IN  BeatRange(IntOf(numbers[1]), IntOf(numbers[2]))

\* sorted(ranges, key = begin): insertion sort, stable like Python's sort
RECURSIVE InsertByBegin(_, _)
InsertByBegin(sorted, r) ==
  IF sorted = <<>> THEN <<r>>
  ELSE IF sorted[Len(sorted)].begin <= r.begin THEN Append(sorted, r)
  ELSE Append(InsertByBegin(SubSeq(sorted, 1, Len(sorted) - 1), r), sorted[Len(sorted)])

RECURSIVE SortByBegin(_)
SortByBegin(rangeList) ==
  IF rangeList = <<>> THEN <<>>
  ELSE InsertByBegin(SortByBegin(SubSeq(rangeList, 1, Len(rangeList) - 1)), rangeList[Len(rangeList)])

\* BeatRange.isContiguousSequence on a non-empty list; on an empty list
\* ranges[-1] raises
isContiguousSequenceRaises(rangeList) == rangeList = <<>>

isContiguousSequence(rangeList, total) ==
  LET sorted == SortByBegin(rangeList)
  IN  /\ \A k \in 2..Len(sorted) : sorted[k].begin = sorted[k - 1].end
      /\ ~(sorted[Len(sorted)].end < total \/ sorted[1].begin # 1)

\* the containment test of getJati and getSpeed
contains(beatInterval, beatNumber) ==
  beatNumber >= beatInterval.begin /\ beatNumber < beatInterval.end

(***************************************************************************)
(* Exact rationals <<numerator, denominator>> for syllable weights.        *)
(***************************************************************************)
RECURSIVE GCD(_, _)
GCD(a, b) == IF b = 0 THEN a ELSE GCD(b, a % b)

Rat(n, d) == LET g == GCD(n, d) IN IF g = 0 THEN <<0, 1>> ELSE <<n \div g, d \div g>>

AddRat(a, b) == Rat(a[1] * b[2] + b[1] * a[2], a[2] * b[2])

\* sum(syllableCount)
RECURSIVE SumWeights(_)
SumWeights(entries) ==
  IF entries = <<>> THEN <<0, 1>>
  ELSE AddRat(Head(entries).weight, SumWeights(Tail(entries)))

(***************************************************************************)
(* Composition types: schema pre-check, assembler, post-check.             *)
(***************************************************************************)
BEAT_DIVIDER == "|"
PHRASE_SPLITTER == "-"
PHRASE_JOINER_OPEN == "["
PHRASE_JOINER_CLOSE == "]"
MARKER == "~"

Infer == <<"I", "n", "f", "e", "r">>

\* the keys of BolParser.bhariKhaliMappings in the order of the dict literal,
\* each with the id it is looked up under; a key that names a phrase already
\* in the dict replaces that phrase's value and keeps its place
bhariKhaliLiteral ==
  << << <<"d", "h", "a">>, <<"t", "a">> >>,
     << <<"g", "e">>, <<"k", "e">> >>,
     << <<"d", "h", "i", "n">>, <<"t", "i", "n">> >>,
     << <<"d", "h", "e", "t", "e">>, <<"t", "e", "t", "e">> >>,
     << <<"d", "h", "e", "r", "e", "d", "h", "e", "r", "e">>,
        <<"t", "e", "r", "e", "t", "e", "r", "e">> >>,
     << <<"g", "r", "a", "n">>, <<"k", "r", "a", "n">> >> >>

RECURSIVE DictOf(_, _)
DictOf(pairs, dict) ==
  IF pairs = <<>> THEN dict
  ELSE LET p == Head(pairs)
           at == {k \in DOMAIN dict : dict[k][1] = p[1]}
       IN  DictOf(Tail(pairs),
                  IF at = {} THEN Append(dict, p)
                  ELSE [k \in DOMAIN dict |-> IF k \in at THEN p ELSE dict[k]])

bhariKhaliMappings(reg) ==
  DictOf([k \in DOMAIN bhariKhaliLiteral |->
            <<reg[bhariKhaliLiteral[k][1]], reg[bhariKhaliLiteral[k][2]]>>], <<>>)

\* BolParser.toKhali: for every key of the mapping and every id of the key,
\* str.replace(id, main id of the value)
RECURSIVE ReplaceIds(_, _, _)
ReplaceIds(result, ids, new) ==
  IF ids = <<>> THEN result
  ELSE ReplaceIds(Replace(result, Head(ids), new), Tail(ids), new)

RECURSIVE ReplaceMappings(_, _)
ReplaceMappings(result, mappings) ==
  IF mappings = <<>> THEN result
  ELSE ReplaceMappings(ReplaceIds(result, Head(mappings)[1].ids, Head(mappings)[2].ids[1]),
                       Tail(mappings))

toKhali(reg, bolString) == ReplaceMappings(bolString, bhariKhaliMappings(reg))

\* jsonschema validation against expansionarySchema: the required fields
expansionaryPreCheck(components) ==
  {"mainTheme", "paltas", "tihai"} \subseteq DOMAIN components

\* expansionaryAssembler: whether every attribute it reads exists, and its result
ThemeReadable(theme) == {"bhari", "khali"} \subseteq DOMAIN theme

expansionaryAssemblerAllowed(components) ==
  /\ {"mainTheme", "paltas", "tihai"} \subseteq DOMAIN components
  /\ ThemeReadable(components.mainTheme)
  /\ \A k \in DOMAIN components.paltas : ThemeReadable(components.paltas[k])

\* faulty variant of ThemePair: the khali text is taken as it is written
ThemePairAsWritten(reg, theme) == << theme.bhari, theme.khali >>

ThemePair(reg, theme) ==
  << theme.bhari,
     IF theme.khali = Infer THEN toKhali(reg, theme.bhari) ELSE theme.khali >>

RECURSIVE PaltaPairs(_, _)
PaltaPairs(reg, paltas) ==
  IF paltas = <<>> THEN <<>>
  ELSE ThemePair(reg, Head(paltas)) \o PaltaPairs(reg, Tail(paltas))

expansionaryAssembler(reg, components) ==
  ThemePair(reg, components.mainTheme) \o PaltaPairs(reg, components.paltas)
    \o <<components.tihai>>

\* expansionaryValidityCheck
expansionaryValidityCheck(bol) == TRUE

\* tihaiSchema: "content" is required
tihaiPreCheck(components) == {"content"} \subseteq DOMAIN components

\* tihaiAssembler
tihaiAssembler(components) == <<components.content>>

\* regularChakradarValidityCheck: its first statement reads
\* bol.beats.phrases, and bol.beats is a list, so the call raises
\* AttributeError before it computes anything
regularChakradarValidityCheckRaises(bol) == DOMAIN bol.beats = 1..Len(bol.beats)

\* regularTihaiValidityCheck calls regularChakradarValidityCheck
regularTihaiValidityCheckRaises(bol) == regularChakradarValidityCheckRaises(bol)

\* fixedSchema: "content" is required, "tihai" is not
fixedPreCheck(components) == {"content"} \subseteq DOMAIN components

\* fixedAssembler: hasattr(tablaFile, tihai) reads the name tihai, which is
\* bound nowhere, so the call raises NameError whatever the components are
fixedAssemblerRaises(components) == TRUE

\* chakradarAssembler
chakradarAssembler(components) == <<components.content, components.tihai>>

\* bedamTihaiValidityCheck and damdarTihaiValidityCheck: the first statement
\* of each reads bol.beats.phrases, as regularChakradarValidityCheck does
bedamTihaiValidityCheckRaises(bol) == DOMAIN bol.beats = 1..Len(bol.beats)

damdarTihaiValidityCheckRaises(bol) == DOMAIN bol.beats = 1..Len(bol.beats)

\* the test "S" in phrase.ids of the two checks, over the phrases of the Bol
silenceInIds(bol) ==
  \E k \in DOMAIN bol.beats : \E j \in DOMAIN bol.beats[k].phrases :
    <<"S">> \in Range(bol.beats[k].phrases[j][1].ids)

\* BolParser.compositionsInitializer: the theme-variation-closing types, Gat
\* (one of the types with fixedSchema and fixedAssembler), Chakradar and the
\* three tihai types
compositionsInitializer ==
  [name \in {"Kayda", "Rela", "Peshkar", "GatKayda", "LadiKayda"} |->
     [name |-> name, schema |-> "expansionarySchema",
      mainCheck |-> "expansionaryValidityCheck",
      assembler |-> "expansionaryAssembler"]]
  @@ [name \in {"Gat"} |->
     [name |-> name, schema |-> "fixedSchema",
      mainCheck |-> "regularFixedValidityCheck",
      assembler |-> "fixedAssembler"]]
  @@ [name \in {"Chakradar"} |->
     [name |-> name, schema |-> "fixedSchema",
      mainCheck |-> "regularChakradarValidityCheck",
      assembler |-> "chakradarAssembler"]]
  @@ [name \in {"Tihai"} |->
     [name |-> name, schema |-> "tihaiSchema",
      mainCheck |-> "regularTihaiValidityCheck",
      assembler |-> "tihaiAssembler"]]
  @@ [name \in {"Bedam Tihai"} |->
     [name |-> name, schema |-> "tihaiSchema",
      mainCheck |-> "bedamTihaiValidityCheck",
      assembler |-> "tihaiAssembler"]]
  @@ [name \in {"Damdaar Tihai"} |->
     [name |-> name, schema |-> "tihaiSchema",
      mainCheck |-> "damdarTihaiValidityCheck",
      assembler |-> "tihaiAssembler"]]

\* CompositionType(name, schema, validityCheck, assembler) as a caller of the
\* library registers it: the schema and assembler of the theme-variation
\* types, and a validityCheck that returns False for every Bol
callerTypes ==
  [name \in {"Etude"} |->
     [name |-> name, schema |-> "expansionarySchema",
      mainCheck |-> "lambda bol: False",
      assembler |-> "expansionaryAssembler"]]

\* faulty variant of preCheck: the schema is not consulted
preCheckSkipped(ctype, components) == TRUE

preCheck(ctype, components) ==
  CASE ctype.schema = "expansionarySchema" -> expansionaryPreCheck(components)
    [] ctype.schema = "tihaiSchema" -> tihaiPreCheck(components)
    [] ctype.schema = "fixedSchema" -> fixedPreCheck(components)

assemblerAllowed(ctype, components) ==
  CASE ctype.assembler = "expansionaryAssembler" ->
         expansionaryAssemblerAllowed(components)
    [] ctype.assembler = "tihaiAssembler" -> "content" \in DOMAIN components
    [] ctype.assembler = "fixedAssembler" -> ~fixedAssemblerRaises(components)
    [] ctype.assembler = "chakradarAssembler" ->
         {"content", "tihai"} \subseteq DOMAIN components

assembler(ctype, reg, components) ==
  CASE ctype.assembler = "expansionaryAssembler" ->
         expansionaryAssembler(reg, components)
    [] ctype.assembler = "tihaiAssembler" -> tihaiAssembler(components)
    [] ctype.assembler = "chakradarAssembler" -> chakradarAssembler(components)

\* whether the call of mainCheck raises, and the value it returns otherwise
mainCheckRaises(ctype, bol) ==
  CASE ctype.mainCheck = "regularTihaiValidityCheck" ->
         regularTihaiValidityCheckRaises(bol)
    [] ctype.mainCheck = "regularChakradarValidityCheck" ->
         regularChakradarValidityCheckRaises(bol)
    [] ctype.mainCheck = "bedamTihaiValidityCheck" ->
         bedamTihaiValidityCheckRaises(bol)
    [] ctype.mainCheck = "damdarTihaiValidityCheck" ->
         damdarTihaiValidityCheckRaises(bol)
    [] OTHER -> FALSE

mainCheck(ctype, bol) ==
  CASE ctype.mainCheck = "expansionaryValidityCheck" ->
         expansionaryValidityCheck(bol)
    [] ctype.mainCheck = "regularFixedValidityCheck" -> TRUE
    [] ctype.mainCheck = "lambda bol: False" -> FALSE

(***************************************************************************)
(* BolParser.parse: tokenization of one beat (the body of the beat loop).  *)
(***************************************************************************)
\* the loop that builds newStr: a space inside a grouping becomes "*"
RECURSIVE ScanGrouping(_, _)
ScanGrouping(beat, inGrouping) ==
  IF beat = <<>> THEN <<>>
  ELSE LET char == Head(beat)
           opened == IF char = PHRASE_JOINER_OPEN THEN TRUE ELSE inGrouping
           after == IF char = PHRASE_JOINER_OPEN THEN FALSE ELSE opened
       IN  <<IF char = " " /\ after THEN "*" ELSE char>>
             \o ScanGrouping(Tail(beat), after)

newStr(beat) == ScanGrouping(Strip(beat), FALSE)

intermediate(beat) == Split(newStr(beat), " ")

\* the sub-elements of one element of intermediate: itself, or the parts of
\* a grouping
deconstructed(elem) ==
  IF ~StartsWith(elem, PHRASE_JOINER_OPEN) THEN <<elem>>
  ELSE Split(Replace(Replace(elem, <<PHRASE_JOINER_OPEN>>, <<>>),
                     <<PHRASE_JOINER_CLOSE>>, <<>>), "*")

\* faulty variant of phraseKey: an unknown identifier falls back to silence
phraseKeyOrSilence(subElem) ==
  LET key == Replace(Replace(subElem, <<PHRASE_SPLITTER>>, <<>>), <<MARKER>>, <<>>)
  IN  IF key \in DOMAIN registeredPhrases THEN key ELSE <<"s">>

\* the key a sub-element is looked up under in Phrase.registeredPhrases
phraseKey(subElem) ==
  Replace(Replace(subElem, <<PHRASE_SPLITTER>>, <<>>), <<MARKER>>, <<>>)

\* faulty variant of tokenEntry: the split symbols do not override the
\* registered syllable count
tokenEntryNoSplit(reg, subElem, groupSize) ==
  [phrase |-> reg[Replace(Replace(subElem, <<PHRASE_SPLITTER>>, <<>>), <<MARKER>>, <<>>)],
   weight |-> Rat(reg[Replace(Replace(subElem, <<PHRASE_SPLITTER>>, <<>>),
                              <<MARKER>>, <<>>)].syllables, groupSize),
   marker |-> IF StartsWith(subElem, MARKER) THEN 1 ELSE 0]

\* markers, rawPhrases and syllableCount entry of one sub-element
tokenEntry(reg, subElem, groupSize) ==
  LET correspondingPhrase == reg[phraseKey(subElem)]
  IN  [phrase |-> correspondingPhrase,
       weight |-> IF Count(subElem, PHRASE_SPLITTER) # 0
                  THEN Rat(Count(subElem, PHRASE_SPLITTER) + 1, groupSize)
                  ELSE Rat(correspondingPhrase.syllables, groupSize),
       marker |-> IF StartsWith(subElem, MARKER) THEN 1 ELSE 0]

elemKnown(reg, elem) ==
  \A k \in DOMAIN deconstructed(elem) : phraseKey(deconstructed(elem)[k]) \in DOMAIN reg

elemEntries(reg, elem) ==
  LET parts == deconstructed(elem)
  IN  [k \in DOMAIN parts |-> tokenEntry(reg, parts[k], Len(parts))]

\* every lookup of the beat succeeds (no KeyError)
beatKnown(reg, beat) ==
  \A k \in DOMAIN intermediate(beat) : elemKnown(reg, intermediate(beat)[k])

\* faulty variant of allEntries: the entries of a beat in reverse order
RECURSIVE allEntriesReversed(_, _)
allEntriesReversed(reg, elems) ==
  IF elems = <<>> THEN <<>>
  ELSE allEntriesReversed(reg, Tail(elems)) \o elemEntries(reg, Head(elems))

RECURSIVE allEntries(_, _)
allEntries(reg, elems) ==
  IF elems = <<>> THEN <<>>
  ELSE elemEntries(reg, Head(elems)) \o allEntries(reg, Tail(elems))

beatEntries(reg, beat) == allEntries(reg, intermediate(beat))

(***************************************************************************)
(* Per-beat jati and speed, classification, Beat and Bol.                  *)
(***************************************************************************)
\* the first interval of the dict, in dict order, that contains the beat:
\* <<value>>, or <<>> when the loop ends without returning (None)
RECURSIVE firstContaining(_, _)
firstContaining(items, beatNumber) ==
  IF items = <<>> THEN <<>>
  ELSE IF contains(Head(items).range, beatNumber) THEN <<Head(items).value>>
  ELSE firstContaining(Tail(items), beatNumber)

getJati(jatiVal, beatNumber) ==
  CASE jatiVal.kind = "Jati" -> <<jatiVal.syllables>>
    [] jatiVal.kind = "dict" -> firstContaining(jatiVal.items, beatNumber)
    [] OTHER -> <<-1>>

getSpeed(speedVal, beatNumber) ==
  CASE speedVal.kind = "Speed" -> <<speedVal.bpm>>
    [] speedVal.kind = "dict" -> firstContaining(speedVal.items, beatNumber)
    [] OTHER -> <<-1>>

jatiIsInfer(jatiVal) ==
  jatiVal.kind = "raw" /\ jatiVal.value.kind = "str" /\ jatiVal.value.s = "Infer"

\* faulty variant of jatiMatches: the assertion is left out
jatiUnchecked(jatiVal, entries, idx) == TRUE

\* the jati assertion of the beat with 0-based index idx
jatiMatches(jatiVal, entries, idx) ==
  \/ jatiIsInfer(jatiVal)
  \/ /\ getJati(jatiVal, idx + 1) # <<>>
     /\ SumWeights(entries) = <<getJati(jatiVal, idx + 1)[1], 1>>

InList(x, list) == \E k \in DOMAIN list : list[k] = x

\* taaliKhaliOrNone of the beat with 0-based index idx
taaliKhaliOrNone(idx, taalVal) ==
  IF InList((idx + 1) % taalVal.beats, taalVal.taali) THEN 1
  ELSE IF InList((idx + 1) % taalVal.beats, taalVal.khali) THEN -1
  ELSE 0

\* faulty variant of saam: only the first beat of the composition
saamFirstBeatOnly(idx, taalVal) == idx = 0

\* saam of the beat with 0-based index idx
saam(idx, taalVal) == idx % taalVal.beats = 0

\* Beat.__init__: the marker assertion and the two divisions
BeatAllowed(entries, beatSpeed) ==
  /\ beatSpeed # <<>>
  /\ beatSpeed[1] # 0
  /\ SumWeights(entries)[1] # 0

Beat(number, clap, isSaam, entries, beatSpeed) ==
  [number |-> number, clap |-> clap, saam |-> isSaam,
   phrases |-> [k \in DOMAIN entries |-> <<entries[k].phrase, entries[k].weight>>],
   speed |-> beatSpeed[1],
   markers |-> [k \in DOMAIN entries |-> entries[k].marker]]

\* faulty variant of markedOf: a beat is listed once, with its first marked
\* phrase
RECURSIVE markedOncePerBeat(_)
markedOncePerBeat(beats) ==
  IF beats = <<>> THEN <<>>
  ELSE LET beat == Head(beats)
           slots == SelectSeq([k \in DOMAIN beat.markers |-> k],
                              LAMBDA k : beat.markers[k] = 1)
       IN  (IF slots = <<>> THEN <<>>
            ELSE << [beat |-> beat, phrase |-> beat.phrases[slots[1]][1]] >>)
             \o markedOncePerBeat(Tail(beats))

\* Bol.__init__: markedBeats and markedPhrases, beat by beat, slot by slot
RECURSIVE markedOf(_)
markedOf(beats) ==
  IF beats = <<>> THEN <<>>
  ELSE LET beat == Head(beats)
           slots == SelectSeq([k \in DOMAIN beat.markers |-> k],
                              LAMBDA k : beat.markers[k] = 1)
       IN  [k \in DOMAIN slots |-> [beat |-> beat, phrase |-> beat.phrases[slots[k]][1]]]
             \o markedOf(Tail(beats))

Bol(beats) ==
  [beats |-> beats,
   markedBeats |-> [k \in DOMAIN markedOf(beats) |-> markedOf(beats)[k].beat],
   markedPhrases |-> [k \in DOMAIN markedOf(beats) |-> markedOf(beats)[k].phrase]]

(***************************************************************************)
(* The .tabla files the model parses.                                      *)
(***************************************************************************)
\* "dha ge na"
segPlain ==
  <<"d", "h", "a", " ", "g", "e", " ", "n", "a">>

\* "tete na | dha ge na"
segTwo ==
  <<"t", "e", "t", "e", " ", "n", "a", " ", "|", " ", "d", "h", "a", " ",
    "g", "e", " ", "n", "a">>

\* "dha ge na|~dha tere-kite|d-ha ge"
segMarks ==
  <<"d", "h", "a", " ", "g", "e", " ", "n", "a", "|", "~", "d", "h", "a",
    " ", "t", "e", "r", "e", "-", "k", "i", "t", "e", "|", "d", "-", "h",
    "a", " ", "g", "e">>

\* "[dha] ge na|[dha*ge] na na|tete na"
segGroups ==
  <<"[", "d", "h", "a", "]", " ", "g", "e", " ", "n", "a", "|", "[", "d",
    "h", "a", "*", "g", "e", "]", " ", "n", "a", " ", "n", "a", "|", "t",
    "e", "t", "e", " ", "n", "a">>

\* "[dha ge] na na"
segPair ==
  <<"[", "d", "h", "a", " ", "g", "e", "]", " ", "n", "a", " ", "n", "a">>

\* "dha xx na"
segUnknown ==
  <<"d", "h", "a", " ", "x", "x", " ", "n", "a">>

\* "dha ge"
segShort ==
  <<"d", "h", "a", " ", "g", "e">>

\* "dhin dha nagetete"
segDhin ==
  <<"d", "h", "i", "n", " ", "d", "h", "a", " ", "n", "a", "g", "e", "t", "e",
    "t", "e">>

\* "~dha ge ~na|[~dha*ge] na na|tete ~na"
segTilde ==
  <<"~", "d", "h", "a", " ", "g", "e", " ", "~", "n", "a", "|", "[", "~", "d",
    "h", "a", "*", "g", "e", "]", " ", "n", "a", " ", "n", "a", "|", "t", "e",
    "t", "e", " ", "~", "n", "a">>

\* "dha s na|dha s na|dha s na"
segSilence ==
  <<"d", "h", "a", " ", "s", " ", "n", "a", "|", "d", "h", "a", " ", "s", " ",
    "n", "a", "|", "d", "h", "a", " ", "s", " ", "n", "a">>

\* "dha | dha | dha"
segTihai ==
  <<"d", "h", "a", " ", "|", " ", "d", "h", "a", " ", "|", " ", "d", "h", "a">>


\* JSON values of the speed and jati fields: a number, a string, or an
\* object whose items keep the order of the file
Number(n) == [kind |-> "int", n |-> n, s |-> ""]
String(s) == [kind |-> "str", n |-> 0, s |-> s]
Object(items) == [kind |-> "dict", items |-> items]

Item(key, val) == [key |-> key, val |-> val]

\* {"1-4": 60, "4-7": 90}
mapOneSeven == << Item(<<"1", "-", "4">>, Number(60)), Item(<<"4", "-", "7">>, Number(90)) >>
\* {"3-6": 90, "1-3": 60}
mapOneSix == << Item(<<"3", "-", "6">>, Number(90)), Item(<<"1", "-", "3">>, Number(60)) >>
\* {"1-3": 60, "4-7": 90}
mapGap == << Item(<<"1", "-", "3">>, Number(60)), Item(<<"4", "-", "7">>, Number(90)) >>
\* {"1-10": "Drut"}
mapOneTen == << Item(<<"1", "-", "1", "0">>, String("Drut")) >>
\* {"4-1": 60}
mapInverted == << Item(<<"4", "-", "1">>, Number(60)) >>
\* {"1-4": "Tisra"}
mapTisra == << Item(<<"1", "-", "4">>, String("Tisra")) >>

SpeedPool ==
  {Number(60), String("Madhya"), Object(mapOneSeven), Object(mapOneSix),
   Object(mapGap), Object(mapOneTen)}

JatiPool == {String("Infer"), String("Tisra")}

TaalPool == {"Sadanand", "Dadra", "Basant"}

\* the largest number of paltas of a composition
MaxPaltas == 1

PaltaPool ==
  {[bhari |-> segPlain, khali |-> Infer], [bhari |-> segTwo, khali |-> segTwo]}

PaltaLists == UNION {[1..n -> PaltaPool] : n \in 1..MaxPaltas}

Compositions ==
  {[mainTheme |-> [bhari |-> b, khali |-> k], paltas |-> <<>>, tihai |-> t] :
     b \in {segPlain, segTwo, segMarks, segGroups, segPair, segUnknown, segShort},
     k \in {Infer, segPlain, segTwo, segGroups},
     t \in {segPlain, segTwo, segMarks, segShort}}
  \cup
  {[mainTheme |-> [bhari |-> segPlain, khali |-> Infer], paltas |-> ps,
    tihai |-> segTwo] : ps \in PaltaLists}
  \cup
  {[mainTheme |-> [bhari |-> segDhin, khali |-> Infer], paltas |-> <<>>,
    tihai |-> t] : t \in {segPlain, segTwo}}
  \cup
  {[mainTheme |-> [bhari |-> segTilde, khali |-> segPlain], paltas |-> <<>>,
    tihai |-> t] : t \in {segTwo, segMarks}}

File(type, taalName, speedVal, jatiVal, components, display) ==
  [type |-> type, taal |-> taalName, speed |-> speedVal, jati |-> jatiVal,
   components |-> components, display |-> display]

plainComposition ==
  [mainTheme |-> [bhari |-> segPlain, khali |-> segPlain], paltas |-> <<>>,
   tihai |-> segPlain]

\* files whose configuration or components are wrong in one place
MalformedFiles ==
  { File("Thumri", "Sadanand", Number(60), String("Infer"), plainComposition, "Bhatkande"),
    File("Kayda", "Waltz", Number(60), String("Infer"), plainComposition, "Bhatkande"),
    File("Kayda", "Sadanand", String("Allegro"), String("Infer"), plainComposition, "Bhatkande"),
    File("Kayda", "Sadanand", Object(mapInverted), String("Infer"), plainComposition, "Bhatkande"),
    File("Kayda", "Sadanand", Number(60), String("Pancha"), plainComposition, "Bhatkande"),
    File("Kayda", "Sadanand", Number(60), Number(3), plainComposition, "Bhatkande"),
    File("Kayda", "Sadanand", Number(60), Object(mapTisra), plainComposition, "Bhatkande"),
    File("Kayda", "Sadanand", Object(mapOneSeven), Object(mapTisra), plainComposition, "Bhatkande"),
    File("Kayda", "Sadanand", Object(mapTisra), Object(mapTisra), plainComposition, "Bhatkande"),
    File("Kayda", "Sadanand", Object(<<>>), String("Infer"), plainComposition, "Bhatkande"),
    File("Kayda", "Sadanand", Number(60), String("Infer"), plainComposition, "Western"),
    File("Kayda", "Sadanand", Number(60), String("Infer"),
         [mainTheme |-> [bhari |-> segPlain, khali |-> segPlain], paltas |-> <<>>],
         "Bhatkande"),
    File("Kayda", "Sadanand", Number(60), String("Infer"),
         [mainTheme |-> [bhari |-> segPlain], paltas |-> <<>>, tihai |-> segPlain],
         "Bhatkande") }

\* files of the other registered types, and of the type a caller registers
TypedFiles ==
  {File(type, "Sadanand", Number(60), String("Infer"),
        [mainTheme |-> [bhari |-> segPlain, khali |-> Infer], paltas |-> ps,
         tihai |-> segTwo], "Bhatkande") :
     type \in {"Rela", "Peshkar", "GatKayda", "LadiKayda"}, ps \in PaltaLists}
  \cup
  {File("Tihai", "Sadanand", Number(60), j, c, "Bhatkande") :
     j \in JatiPool,
     c \in {[content |-> segTihai], [content |-> segMarks], [content |-> segTwo],
            [tihai |-> segTihai]}}
  \cup
  {File(type, "Sadanand", Number(60), String("Infer"), c, "Bhatkande") :
     type \in {"Gat", "Chakradar"},
     c \in {[content |-> segPlain], [content |-> segTwo, tihai |-> segPlain],
            [tihai |-> segTihai]}}
  \cup
  {File(type, "Sadanand", Number(60), String("Infer"), [content |-> c], "Bhatkande") :
     type \in {"Bedam Tihai", "Damdaar Tihai"}, c \in {segSilence, segTihai}}
  \cup
  {File("Kayda", "Sadanand", Number(60), String("Infer"),
        [mainTheme |-> [bhari |-> segPlain], paltas |-> <<>>, tihai |-> segTwo],
        "Bhatkande")}
  \cup
  {File("Kayda", "Sadanand", String("Vilambit"), String("Infer"), plainComposition,
        "Bhatkande")}
  \cup
  {File("Etude", "Sadanand", Number(60), j, c, "Bhatkande") :
     j \in JatiPool,
     c \in {plainComposition,
            [mainTheme |-> [bhari |-> segPlain, khali |-> segPlain], paltas |-> <<>>]}}

Files ==
  {File("Kayda", t, s, j, c, "Bhatkande") :
     t \in TaalPool, s \in SpeedPool, j \in JatiPool, c \in Compositions}
  \cup TypedFiles
  \cup MalformedFiles

VALID_NOTATIONS == {"Bhatkande", "Paluskar"}

(***************************************************************************)
(* Initial state.                                                          *)
(***************************************************************************)
Unset == [kind |-> "unset"]

\* the registries after the class body of BolParser has run
RegistriesInit ==
  /\ registeredPhrases = BuiltinPhrases
  /\ registeredTaals = BuiltinTaals
  /\ registeredJatis = BuiltinJatis
  /\ registeredSpeeds \in {SpeedClasses(draw) : draw \in speedDraws}
  /\ registeredTypes = compositionsInitializer

LocalsInit ==
  /\ compositionType = Unset
  /\ taal = Unset
  /\ speed = Unset
  /\ jati = Unset
  /\ segmentList = <<>>
  /\ warned = FALSE
  /\ completeBolString = <<>>
  /\ totalBeats = 0
  /\ beatPartition = <<>>
  /\ i = 0
  /\ finalizedBeats = <<>>
  /\ parsedResult = Unset

\* no BeatRange classmethod is being called
NoRangeCall ==
  /\ method = "none"
  /\ ranges = <<>>
  /\ totalBeatsArg = 0
  /\ beginArg = 0
  /\ endArg = 0
  /\ ret = "none"

\* BolParser.parse(file) is called on one of the files
Init ==
  /\ RegistriesInit
  /\ file \in Files
  /\ pc = "start"
  /\ LocalsInit
  /\ NoRangeCall

(***************************************************************************)
(* Phrase.__init__ with register = True, called by the caller of the       *)
(* library for a phrase that the file uses and the vocabulary lacks.       *)
(***************************************************************************)
\* the calls Phrase("Xx", 1, "daiyan", aliases = ["ti"]) a caller makes
callerPhrases ==
  {[mainID |-> <<"X", "x">>, syllables |-> 1, position |-> "daiyan",
    aliases |-> << <<"t", "i">> >>]}

RegisterCallerPhrase ==
  /\ pc = "start"
  /\ "mainTheme" \in DOMAIN file.components
  /\ \E e \in callerPhrases :
       /\ Lower(e.mainID) \notin DOMAIN registeredPhrases
       /\ Lower(e.mainID) \in Range(Split(file.components.mainTheme.bhari, " "))
       /\ registeredPhrases' =
            RegisterPhrase(registeredPhrases,
                           Phrase(e.mainID, e.syllables, e.position, e.aliases))
  /\ UNCHANGED << registeredTaals, registeredJatis, registeredSpeeds, registeredTypes,
                  rangeCall, file, pc, compositionType, taal, speed, jati, segmentList,
                  warned, completeBolString, totalBeats, beatPartition, i,
                  finalizedBeats, parsedResult >>

(***************************************************************************)
(* CompositionType.__init__ with register = True, called by the caller of  *)
(* the library before it parses a file of that type.                       *)
(***************************************************************************)
RegisterType ==
  /\ pc = "start"
  /\ file.type \in DOMAIN callerTypes
  /\ file.type \notin DOMAIN registeredTypes
  /\ registeredTypes' = Update(registeredTypes, {file.type}, callerTypes[file.type])
  /\ UNCHANGED << registeredPhrases, registeredTaals, registeredJatis, registeredSpeeds,
                  rangeCall, file, pc, compositionType, taal, speed, jati, segmentList,
                  warned, completeBolString, totalBeats, beatPartition, i,
                  finalizedBeats, parsedResult >>

(***************************************************************************)
(* BolParser.parse, lines 1032-1054: the configuration block.              *)
(***************************************************************************)
\* Speed.__init__: whether it raises, and the speed object
SpeedAllowed(val) == val.kind = "int" \/ (val.kind = "str" /\ val.s \in DOMAIN registeredSpeeds)

\* faulty variant of Speed: a class name gets a number drawn at the call,
\* other than the one the registry holds
SpeedDrawnAtCall(val) ==
  IF val.kind = "str"
  THEN [kind |-> "Speed", bpm |-> registeredSpeeds[val.s].generator + 1,
        speedClass |-> val.s]
  ELSE [kind |-> "Speed", bpm |-> val.n, speedClass |-> getSpeedClassFromBPM(val.n)]

Speed(val) ==
  IF val.kind = "str"
  THEN [kind |-> "Speed", bpm |-> registeredSpeeds[val.s].generator, speedClass |-> val.s]
  ELSE [kind |-> "Speed", bpm |-> val.n, speedClass |-> getSpeedClassFromBPM(val.n)]

speedAllowed(data) ==
  IF data.speed.kind = "dict"
  THEN \A k \in DOMAIN data.speed.items :
         fromStringAllowed(data.speed.items[k].key) /\ SpeedAllowed(data.speed.items[k].val)
  ELSE SpeedAllowed(data.speed)

speedOf(data) ==
  IF data.speed.kind = "dict"
  THEN [kind |-> "dict",
        items |-> [k \in DOMAIN data.speed.items |->
                     [range |-> fromString(data.speed.items[k].key),
                      value |-> Speed(data.speed.items[k].val).bpm]]]
  ELSE Speed(data.speed)

\* the jati table is filled from the items of data.speed
jatiAllowed(data) ==
  CASE data.jati.kind = "dict" ->
         /\ data.speed.kind = "dict"
         /\ \A k \in DOMAIN data.speed.items :
              /\ fromStringAllowed(data.speed.items[k].key)
              /\ data.speed.items[k].val.kind = "str"
              /\ data.speed.items[k].val.s \in DOMAIN registeredJatis
    [] data.jati.kind = "str" /\ data.jati.s # "Infer" ->
         data.jati.s \in DOMAIN registeredJatis
    [] OTHER -> TRUE

jatiOf(data) ==
  CASE data.jati.kind = "dict" ->
         [kind |-> "dict",
          items |-> [k \in DOMAIN data.speed.items |->
                       [range |-> fromString(data.speed.items[k].key),
                        value |-> registeredJatis[data.speed.items[k].val.s].syllables]]]
    [] data.jati.kind = "str" /\ data.jati.s # "Infer" ->
         [kind |-> "Jati", syllables |-> registeredJatis[data.jati.s].syllables,
          id |-> data.jati.s]
    [] OTHER -> [kind |-> "raw", value |-> data.jati]

\* no statement of the try block raises
configAllowed(data) ==
  /\ data.type \in DOMAIN registeredTypes
  /\ data.taal \in DOMAIN registeredTaals
  /\ speedAllowed(data)
  /\ jatiAllowed(data)
  /\ data.display \in VALID_NOTATIONS
  /\ preCheck(registeredTypes[data.type], data.components)

Configure ==
  /\ pc = "start"
  /\ IF configAllowed(file)
     THEN /\ compositionType' = registeredTypes[file.type]
          /\ taal' = registeredTaals[file.taal]
          /\ speed' = speedOf(file)
          /\ jati' = jatiOf(file)
          /\ pc' = "assemble"
     ELSE /\ pc' = "ValueError"
          /\ UNCHANGED << compositionType, taal, speed, jati >>
  /\ UNCHANGED << registries, rangeCall, file, segmentList, warned, completeBolString,
                  totalBeats, beatPartition, i, finalizedBeats, parsedResult >>

(***************************************************************************)
(* Lines 1056-1065: assembly of the segments into one beat-string.         *)
(***************************************************************************)
\* faulty variant of beatCount: the dividers, not the beats
dividerCount(text) == Count(text, BEAT_DIVIDER)

\* str.count(BEAT_DIVIDER) + 1
beatCount(text) == Count(text, BEAT_DIVIDER) + 1

\* a warning made an exception, as under the "error" warnings filter
warnRaises(issued, continuation) ==
  IF issued THEN "UserWarning" ELSE continuation

\* warnings.warn under the default filter: the message is issued and control
\* goes on to the statement after the if
warn(issued, continuation) == continuation

Assemble ==
  /\ pc = "assemble"
  /\ IF assemblerAllowed(compositionType, file.components)
     THEN LET segments == assembler(compositionType, registeredPhrases, file.components)
          IN  /\ segmentList' = segments
              /\ warned' = \E k \in DOMAIN segments :
                              beatCount(segments[k]) % taal.beats # 0
              /\ completeBolString' = Join(segments, BEAT_DIVIDER)
              /\ pc' = warn(warned', "divisibility")
     ELSE /\ pc' = IF compositionType.assembler = "fixedAssembler"
                   THEN "NameError" ELSE "AttributeError"
          /\ UNCHANGED << segmentList, warned, completeBolString >>
  /\ UNCHANGED << registries, rangeCall, file, compositionType, taal, speed, jati,
                  totalBeats, beatPartition, i, finalizedBeats, parsedResult >>

(***************************************************************************)
(* Lines 1066-1068: the whole composition must fill whole taal cycles.     *)
(***************************************************************************)
DivisibilityGate ==
  /\ pc = "divisibility"
  /\ IF beatCount(completeBolString) % taal.beats = 0
     THEN /\ totalBeats' = beatCount(completeBolString)
          /\ beatPartition' = Split(completeBolString, BEAT_DIVIDER)
          /\ pc' = "contiguity"
     ELSE /\ pc' = "AssertionError: taal"
          /\ UNCHANGED << totalBeats, beatPartition >>
  /\ UNCHANGED << registries, rangeCall, file, compositionType, taal, speed, jati,
                  segmentList, warned, completeBolString, i, finalizedBeats,
                  parsedResult >>

(***************************************************************************)
(* Lines 1069-1072: interval mappings must pass isContiguousSequence.      *)
(***************************************************************************)
keys(table) == [k \in DOMAIN table.items |-> table.items[k].range]

gateRaises(table) == table.kind = "dict" /\ isContiguousSequenceRaises(keys(table))

gatePasses(table, total) ==
  table.kind = "dict" => isContiguousSequence(keys(table), total)

ContiguityGate ==
  /\ pc = "contiguity"
  /\ pc' = IF gateRaises(speed) \/ (gatePasses(speed, totalBeats) /\ gateRaises(jati))
           THEN "IndexError"
           ELSE IF gatePasses(speed, totalBeats) /\ gatePasses(jati, totalBeats)
           THEN "beats"
           ELSE "AssertionError: ranges"
  /\ UNCHANGED << registries, rangeCall, file, compositionType, taal, speed, jati,
                  segmentList, warned, completeBolString, totalBeats,
                  beatPartition, i, finalizedBeats, parsedResult >>

(***************************************************************************)
(* Lines 1115-1177: one iteration of the beat loop.                        *)
(***************************************************************************)
TokenizeBeat ==
  /\ pc = "beats"
  /\ i < Len(beatPartition)
  /\ LET beat == beatPartition[i + 1]
         entries == beatEntries(registeredPhrases, beat)
         beatSpeed == getSpeed(speed, i + 1)
     IN  IF ~beatKnown(registeredPhrases, beat)
         THEN pc' = "KeyError" /\ UNCHANGED << i, finalizedBeats >>
         ELSE IF ~jatiMatches(jati, entries, i)
         THEN pc' = "AssertionError: jati" /\ UNCHANGED << i, finalizedBeats >>
         ELSE IF ~BeatAllowed(entries, beatSpeed)
         THEN pc' = "AssertionError: beat" /\ UNCHANGED << i, finalizedBeats >>
         ELSE /\ finalizedBeats' =
                   Append(finalizedBeats,
                          Beat(i + 1, taaliKhaliOrNone(i, taal), saam(i, taal),
                               entries, beatSpeed))
              /\ i' = i + 1
              /\ pc' = "beats"
  /\ UNCHANGED << registries, rangeCall, file, compositionType, taal, speed, jati,
                  segmentList, warned, completeBolString, totalBeats,
                  beatPartition, parsedResult >>

(***************************************************************************)
(* Lines 1178-1180: the Bol, the post-check, the return.                   *)
(***************************************************************************)
BuildBol ==
  /\ pc = "beats"
  /\ i = Len(beatPartition)
  /\ parsedResult' = Bol(finalizedBeats)
  /\ pc' = "postcheck"
  /\ UNCHANGED << registries, rangeCall, file, compositionType, taal, speed, jati,
                  segmentList, warned, completeBolString, totalBeats,
                  beatPartition, i, finalizedBeats >>

\* the value of mainCheck is computed and dropped; parsedResult is returned
PostCheck ==
  /\ pc = "postcheck"
  /\ IF mainCheckRaises(compositionType, parsedResult)
     THEN pc' = "AttributeError: mainCheck"
     ELSE /\ mainCheck(compositionType, parsedResult) \in BOOLEAN
          /\ pc' = "returned"
  /\ UNCHANGED << registries, rangeCall, file, compositionType, taal, speed, jati,
                  segmentList, warned, completeBolString, totalBeats,
                  beatPartition, i, finalizedBeats, parsedResult >>

Next ==
  \/ RegisterType
  \/ RegisterCallerPhrase
  \/ Configure
  \/ Assemble
  \/ DivisibilityGate
  \/ ContiguityGate
  \/ TokenizeBeat
  \/ BuildBol
  \/ PostCheck

Spec == Init /\ [][Next]_vars

\* BolParser.parse returned a Bol to its caller
Returned == pc = "returned"

(***************************************************************************)
(* Calls of the BeatRange classmethods on lists of ranges.                 *)
(***************************************************************************)
\* the largest beat number of a range boundary, and the longest list
MaxBeat == 6
MaxRanges == 2

\* every BeatRange that BeatRange.__init__ accepts, up to MaxBeat
BeatRanges ==
  {r \in [begin : 1..MaxBeat, end : 1..MaxBeat] : BeatRangeAllowed(r.begin, r.end)}

RangeLists == UNION {[1..n -> BeatRanges] : n \in 0..MaxRanges}

idleFile ==
  File("Kayda", "Sadanand", Number(60), String("Infer"), plainComposition, "Bhatkande")

RangeInit ==
  /\ registeredPhrases = BuiltinPhrases
  /\ registeredTaals = BuiltinTaals
  /\ registeredJatis = BuiltinJatis
  /\ registeredSpeeds = SpeedClasses([Vilambit |-> 0, Madhya |-> 60, Drut |-> 120])
  /\ registeredTypes = compositionsInitializer
  /\ file = idleFile
  /\ pc = "idle"
  /\ LocalsInit
  /\ ranges \in RangeLists
  /\ \/ /\ method = "isContiguousSequence"
        /\ totalBeatsArg \in 1..MaxBeat
        /\ beginArg = 0
        /\ endArg = 0
     \/ /\ method = "getSubsequence"
        /\ totalBeatsArg = 0
        /\ beginArg \in 1..MaxBeat
        /\ endArg \in 1..MaxBeat
  /\ ret = "none"

\* BeatRange.isContiguousSequence(ranges, totalBeatsArg)
CallIsContiguousSequence ==
  /\ pc = "idle"
  /\ method = "isContiguousSequence"
  /\ ret = "none"
  /\ ret' = IF isContiguousSequenceRaises(ranges) THEN "IndexError"
            ELSE IF isContiguousSequence(ranges, totalBeatsArg) THEN "True"
            ELSE "False"
  /\ UNCHANGED << registries, file, pc, compositionType, taal, speed, jati,
                  segmentList, warned, completeBolString, totalBeats,
                  beatPartition, i, finalizedBeats, parsedResult, method, ranges,
                  totalBeatsArg, beginArg, endArg >>

\* BeatRange.getSubsequence(ranges, beginArg, endArg): the assignment
\* range = ranges[i] in the loop body makes range a local name of the
\* function, so range(len(ranges)) in the for statement reads a local that is
\* not bound yet and raises UnboundLocalError, whatever the arguments are
getSubsequenceRaises(rangeList, begin, end) == TRUE

CallGetSubsequence ==
  /\ pc = "idle"
  /\ method = "getSubsequence"
  /\ ret = "none"
  /\ getSubsequenceRaises(ranges, beginArg, endArg)
  /\ ret' = "UnboundLocalError"
  /\ UNCHANGED << registries, file, pc, compositionType, taal, speed, jati,
                  segmentList, warned, completeBolString, totalBeats,
                  beatPartition, i, finalizedBeats, parsedResult, method, ranges,
                  totalBeatsArg, beginArg, endArg >>

RangeNext ==
  \/ CallIsContiguousSequence
  \/ CallGetSubsequence

RangeSpec == RangeInit /\ [][RangeNext]_vars

(***************************************************************************)
(* The notions the specification states its properties in.                 *)
(***************************************************************************)
pastDivisibility ==
  {"contiguity", "IndexError", "AssertionError: ranges", "beats", "KeyError",
   "AssertionError: jati", "AssertionError: beat", "postcheck",
   "AttributeError: mainCheck", "returned"}

pastContiguity ==
  {"beats", "KeyError", "AssertionError: jati", "AssertionError: beat",
   "postcheck", "AttributeError: mainCheck", "returned"}

\* the taal-relative position ((i-1) mod N) + 1 of the beat at position k
position(k) == ((k - 1) % taal.beats) + 1

\* the sum of the weights a finalized beat carries
RECURSIVE weightSum(_)
weightSum(pairs) ==
  IF pairs = <<>> THEN <<0, 1>> ELSE AddRat(Head(pairs)[2], weightSum(Tail(pairs)))

\* the jati the file states for beat k: <<syllables>>, or <<>> if it names none
statedJati(k) ==
  CASE file.jati.kind = "str" ->
         IF file.jati.s \in DOMAIN registeredJatis
         THEN <<registeredJatis[file.jati.s].syllables>> ELSE <<>>
    [] file.jati.kind = "dict" ->
         LET hits == SelectSeq(file.jati.items,
                               LAMBDA it : /\ fromStringAllowed(it.key)
                                           /\ fromString(it.key).begin <= k
                                           /\ k < fromString(it.key).end
                                           /\ it.val.kind = "str"
                                           /\ it.val.s \in DOMAIN registeredJatis)
         IN  IF hits = <<>> THEN <<>> ELSE <<registeredJatis[hits[1].val.s].syllables>>
    [] OTHER -> <<>>

statedInfer == file.jati.kind = "str" /\ file.jati.s = "Infer"

\* the ranges, in some order, ascend by begin, abut, start at 1 and end at lastEnd
contiguousOver(rangeList, lastEnd) ==
  /\ rangeList # <<>>
  /\ \E order \in Permutations(DOMAIN rangeList) :
       /\ \A k \in 2..Len(rangeList) :
            /\ rangeList[order[k - 1]].begin <= rangeList[order[k]].begin
            /\ rangeList[order[k]].begin = rangeList[order[k - 1]].end
       /\ rangeList[order[1]].begin = 1
       /\ rangeList[order[Len(rangeList)]].end = lastEnd

\* the rewrite of a beat in which the spaces of a [...] span become "*"
RECURSIVE spanScan(_, _)
spanScan(beat, inSpan) ==
  IF beat = <<>> THEN <<>>
  ELSE LET char == Head(beat)
           now == IF char = "[" THEN TRUE ELSE IF char = "]" THEN FALSE ELSE inSpan
       IN  <<IF char = " " /\ now THEN "*" ELSE char>> \o spanScan(Tail(beat), now)

\* the tokens of a beat, a [...] span being one token
spanTokens(beat) == Split(spanScan(Strip(beat), FALSE), " ")

\* the sub-tokens of a token
subTokens(token) ==
  IF Head(token \o <<" ">>) = "["
  THEN Split(SelectSeq(token, LAMBDA c : c \notin {"[", "]"}), "*")
  ELSE <<token>>

\* the identifier a sub-token names
identifier(sub) == SelectSeq(sub, LAMBDA c : c \notin {"-", "~"})

\* every token of the beat names a registered phrase
tokensRegistered(beat) ==
  \A t \in DOMAIN spanTokens(beat) :
    \A s \in DOMAIN subTokens(spanTokens(beat)[t]) :
      identifier(subTokens(spanTokens(beat)[t])[s]) \in DOMAIN registeredPhrases

\* the weight of a sub-token of a group of k sub-tokens
statedWeight(sub, k) ==
  IF Count(sub, "-") > 0 THEN Rat(Count(sub, "-") + 1, k)
  ELSE Rat(registeredPhrases[identifier(sub)].syllables, k)

RECURSIVE statedPairs(_)
statedPairs(tokens) ==
  IF tokens = <<>> THEN <<>>
  ELSE LET subs == subTokens(Head(tokens))
       IN  [s \in DOMAIN subs |->
              <<registeredPhrases[identifier(subs[s])], statedWeight(subs[s], Len(subs))>>]
             \o statedPairs(Tail(tokens))

\* the number of entries the tokens before token j contribute
RECURSIVE slotsBefore(_, _)
slotsBefore(tokens, j) ==
  IF j = 1 THEN 0
  ELSE slotsBefore(tokens, j - 1) + Len(subTokens(tokens[j - 1]))

(***************************************************************************)
(* Claims C1-C10.                                                          *)
(***************************************************************************)
\* C1: every finalized beat at position k is a clap iff its taal-relative
\* position ((k-1) mod N) + 1 is in the taal's taali list and a wave iff it is
\* in the khali list, the last position N of a cycle included.
C1_ClapWaveByPosition ==
  \A k \in DOMAIN finalizedBeats :
    /\ finalizedBeats[k].clap = 1 <=> InList(position(k), taal.taali)
    /\ finalizedBeats[k].clap = -1 <=> InList(position(k), taal.khali)

\* C2: a finalized beat at position k has its saam flag set iff its
\* taal-relative position is 1, i.e. k is 1, N+1, 2N+1, ...
C2_SaamOnFirstOfCycle ==
  \A k \in DOMAIN finalizedBeats :
    /\ finalizedBeats[k].number = k
    /\ finalizedBeats[k].saam <=> (position(k) = 1)

\* a second cycle has begun: its first beat is a saam, the beat before is not
C2_SecondCycleSaam ==
  \E k \in DOMAIN finalizedBeats :
    /\ k = taal.beats + 1
    /\ finalizedBeats[k].saam
    /\ \A j \in 2..taal.beats : ~finalizedBeats[j].saam

\* C3: unless the file's jati is "Infer", every beat that is finalized has a
\* weight sum equal to the jati stated for it, a Bol is returned only with
\* every beat finalized, and the jati error leaves the failing beat out.
C3_WeightSumEqualsJati ==
  /\ ~statedInfer =>
       \A k \in DOMAIN finalizedBeats :
         /\ statedJati(k) # <<>>
         /\ weightSum(finalizedBeats[k].phrases) = <<statedJati(k)[1], 1>>
  /\ pc \in {"postcheck", "returned"} => Len(finalizedBeats) = Len(beatPartition)
  /\ pc = "AssertionError: jati" =>
       /\ ~statedInfer
       /\ parsedResult = Unset
       /\ Len(finalizedBeats) = i
       /\ tokensRegistered(beatPartition[i + 1]) =>
            \/ statedJati(i + 1) = <<>>
            \/ weightSum(statedPairs(spanTokens(beatPartition[i + 1])))
                 # <<statedJati(i + 1)[1], 1>>

\* a Bol of several beats was returned under the fixed jati Tisra
C3_ReturnedUnderTisra ==
  /\ Returned
  /\ file.jati = String("Tisra")
  /\ Len(finalizedBeats) > 3
  /\ parsedResult.beats = finalizedBeats

\* C4: the parse is past the divisibility gate only if the number of beat
\* dividers + 1 of the assembled beat-string is a multiple of the taal's beat
\* count; otherwise it has failed there, with no beat tokenized.
C4_DivisibilityGateHolds ==
  /\ pc \in pastDivisibility =>
       (Count(completeBolString, "|") + 1) % taal.beats = 0
  /\ pc = "AssertionError: taal" =>
       /\ (Count(completeBolString, "|") + 1) % taal.beats # 0
       /\ i = 0
       /\ finalizedBeats = <<>>
       /\ parsedResult = Unset

\* the parse failed at the gate on a beat-string of 5 beats in a taal of 3
C4_FailedAtGate ==
  /\ pc = "AssertionError: taal"
  /\ Count(completeBolString, "|") + 1 = 5
  /\ taal.beats = 3
  /\ finalizedBeats = <<>>

C6_TrueIffContiguous ==
  ret \in {"True", "False"} =>
    (ret = "True" <=> contiguousOver(ranges, totalBeatsArg))

C8_GroupYieldsEntries ==
  /\ pc = "KeyError" => ~tokensRegistered(beatPartition[i + 1])
  /\ \A k \in DOMAIN finalizedBeats :
       finalizedBeats[k].phrases = statedPairs(spanTokens(beatPartition[k]))

C10_UnregisteredTokenIsFatal ==
  /\ \A k \in DOMAIN finalizedBeats : tokensRegistered(beatPartition[k])
  /\ parsedResult # Unset =>
       /\ Len(finalizedBeats) = Len(beatPartition)
       /\ \A k \in DOMAIN beatPartition : tokensRegistered(beatPartition[k])
  /\ pc = "KeyError" => parsedResult = Unset /\ Len(finalizedBeats) = i

\* the parse stopped with the lookup error at a beat holding the token "xx"
C10_StoppedAtUnknownToken ==
  /\ pc = "KeyError"
  /\ ~tokensRegistered(beatPartition[i + 1])
  /\ \E t \in DOMAIN spanTokens(beatPartition[i + 1]) :
       spanTokens(beatPartition[i + 1])[t] = <<"x", "x">>
  /\ parsedResult = Unset

\* the components have the fields the schema of the file's type requires
schemaHolds ==
  IF file.type \in {"Tihai", "Bedam Tihai", "Damdaar Tihai", "Gat", "Chakradar"}
  THEN "content" \in DOMAIN file.components
  ELSE /\ "mainTheme" \in DOMAIN file.components
       /\ "paltas" \in DOMAIN file.components
       /\ "tihai" \in DOMAIN file.components

\* the parse has not gone beyond the configuration block
nothingAssembled ==
  /\ segmentList = <<>>
  /\ completeBolString = <<>>
  /\ beatPartition = <<>>
  /\ i = 0
  /\ finalizedBeats = <<>>
  /\ parsedResult = Unset

(***************************************************************************)
(* Claims C11-C20.                                                         *)
(***************************************************************************)
\* C11: the parse is at or past the assembler only if the components passed
\* the schema pre-check of the file's type; components that fail it end the
\* parse with nothing assembled, no gate run and no beat tokenized.
C11_SchemaGateFirst ==
  /\ pc \notin {"start", "ValueError"} => schemaHolds
  /\ pc \in {"start", "ValueError", "assemble"} => nothingAssembled
  /\ ~schemaHolds => nothingAssembled

\* a file of a registered type and taal whose components lack a required
\* field was refused
C11_RefusedBySchema ==
  /\ pc = "ValueError"
  /\ file.type \in DOMAIN registeredTypes
  /\ file.taal \in DOMAIN registeredTaals
  /\ file.display \in VALID_NOTATIONS
  /\ ~schemaHolds
  /\ nothingAssembled

\* the post-check of the composition type returned true
postCheckHeld ==
  /\ ~mainCheckRaises(compositionType, parsedResult)
  /\ mainCheck(compositionType, parsedResult)

\* C12: a Bol is returned to the caller only when the post-check of the
\* composition type held on it.
C12_ReturnedOnlyIfPostCheckHeld == Returned => postCheckHeld

\* the phrases of a Bol, beat after beat
RECURSIVE phraseList(_)
phraseList(beats) ==
  IF beats = <<>> THEN <<>>
  ELSE [k \in DOMAIN Head(beats).phrases |-> Head(beats).phrases[k][1]]
         \o phraseList(Tail(beats))

\* the phrase list divides into three consecutive parts of equal length
\* with identical phrase sets
threeEqualParts(list) ==
  /\ list # <<>>
  /\ Len(list) % 3 = 0
  /\ LET k == Len(list) \div 3
     IN  /\ Range(SubSeq(list, 1, k)) = Range(SubSeq(list, k + 1, 2 * k))
         /\ Range(SubSeq(list, k + 1, 2 * k)) = Range(SubSeq(list, 2 * k + 1, 3 * k))

\* C13: on a Bol of a Tihai whose phrase list divides into three parts with
\* identical phrase sets, e.g. the Bol of "dha | dha | dha", the three-fold
\* repetition check returns true, so the parse comes back from it.
C13_ThreefoldCheckAccepts ==
  ( /\ pc \in {"AttributeError: mainCheck", "returned"}
    /\ compositionType.mainCheck = "regularTihaiValidityCheck"
    /\ threeEqualParts(phraseList(parsedResult.beats)) )
  => pc = "returned"

\* the non-empty intersections of the ranges with [begin, end), sorted by begin
clippedTo(rangeList, begin, end) ==
  LET cut == [k \in DOMAIN rangeList |->
                [begin |-> Max(rangeList[k].begin, begin),
                 end |-> IF rangeList[k].end <= end THEN rangeList[k].end ELSE end]]
  IN  SortByBegin(SelectSeq(cut, LAMBDA r : r.begin < r.end))

\* C14: getSubsequence(ranges, begin, end) returns, sorted by begin, exactly
\* the non-empty intersections of the ranges with [begin, end).
C14_SubsequenceIsIntersection ==
  (method = "getSubsequence" /\ ret # "none") =>
    /\ ret # "UnboundLocalError"
    /\ ret = clippedTo(ranges, beginArg, endArg)

\* C15: on a contiguous full-coverage sequence over N, getSubsequence(ranges,
\* 1, N) returns the ranges unchanged, sorted by begin.
C15_SubsequenceIdentity ==
  (method = "getSubsequence" /\ ret # "none" /\ beginArg = 1
     /\ contiguousOver(ranges, endArg)) =>
    /\ ret # "UnboundLocalError"
    /\ ret = SortByBegin(ranges)

\* the khali segment of a theme: its text, or toKhali of the bhari for "Infer"
khaliOf(theme) ==
  IF theme.khali = <<"I", "n", "f", "e", "r">>
  THEN toKhali(registeredPhrases, theme.bhari) ELSE theme.khali

counterpart(word) ==
  LET ids(name) == Range(registeredPhrases[name].ids)
  IN  CASE word = <<"g", "r", "a", "n">> -> <<"k", "r", "a", "n">>
        [] word \in ids(<<"d", "h", "a">>) -> <<"t", "a">>
        [] word \in ids(<<"g", "e">>) -> <<"k", "e">>
        [] word \in ids(<<"d", "h", "i", "n">>) -> <<"t", "i", "n">>
        [] word \in ids(<<"d", "h", "e", "t", "e">>) -> <<"t", "e", "t", "e">>
        [] word \in ids(<<"d", "h", "e", "r", "e", "d", "h", "e", "r", "e">>) ->
             <<"t", "e", "r", "e", "t", "e", "r", "e">>
        [] OTHER -> word

\* a beat-string with every phrase replaced by its counterpart
phraseWiseKhali(text) ==
  LET beatsOf == Split(text, "|")
      reduced(beat) == Join([k \in DOMAIN Split(beat, " ") |->
                               counterpart(Split(beat, " ")[k])], " ")
  IN  Join([b \in DOMAIN beatsOf |-> reduced(beatsOf[b])], "|")

\* the text holds phrase identifiers, spaces and beat dividers only
undecorated(text) == \A k \in DOMAIN text : text[k] \notin {"~", "-", "[", "]", "*"}

\* C17: the khali segment derived by toKhali from an undecorated bhari is the
\* bhari with every phrase that has a reduced-form counterpart replaced by
\* it (dha -> ta, ge -> ke, dhin -> tin, ...) and every other phrase unchanged.
C17_KhaliPhraseByPhrase ==
  ( /\ pc \in pastDivisibility \cup {"divisibility", "AssertionError: taal"}
    /\ compositionType.assembler = "expansionaryAssembler"
    /\ file.components.mainTheme.khali = <<"I", "n", "f", "e", "r">>
    /\ undecorated(file.components.mainTheme.bhari) )
  => segmentList[2] = phraseWiseKhali(file.components.mainTheme.bhari)

\* the beats of the assembled segments, counted segment by segment
RECURSIVE segmentBeats(_)
segmentBeats(segments) ==
  IF segments = <<>> THEN 0
  ELSE Count(Head(segments), "|") + 1 + segmentBeats(Tail(segments))

\* some assembled segment is not a whole number of cycles long
someSegmentMisaligned ==
  \E k \in DOMAIN segmentList : (Count(segmentList[k], "|") + 1) % taal.beats # 0

\* the returned Bol holds one finalized beat for every beat of the segments
completeBol ==
  /\ "beats" \in DOMAIN parsedResult
  /\ Len(parsedResult.beats) = segmentBeats(segmentList)

\* C18: a segment whose own beat count is not a multiple of the taal's beat
\* count only produces a warning: the parse goes on from the assembler to the
\* divisibility gate, passes that gate when the total of the joined
\* composition is a multiple, and a parse that returns after the warning
\* returns a complete Bol.
C18_MisalignedSegmentOnlyWarns ==
  [][ /\ (pc = "assemble" /\ pc' \notin {"AttributeError", "NameError"})
           => (pc' = "divisibility" /\ (warned' <=> someSegmentMisaligned'))
      /\ (pc = "divisibility" /\ warned
             /\ segmentBeats(segmentList) % taal.beats = 0)
           => (pc' = "contiguity" /\ totalBeats' = segmentBeats(segmentList))
      /\ (pc' = "returned" /\ warned') => completeBol' ]_vars

\* a parse returned a complete Bol although a segment was misaligned
C18_ReturnedAfterWarning ==
  /\ Returned
  /\ warned
  /\ someSegmentMisaligned
  /\ segmentBeats(segmentList) % taal.beats = 0
  /\ completeBol

\* C19: every taal registered under a name, the entries of the built-in table
\* included, is returned by the registry lookup of that name with its own beat
\* count, clap list and wave list.
C19_EveryTaalStaysAddressable ==
  \A k \in DOMAIN taalInitializer :
    LET entry == taalInitializer[k]
    IN  /\ entry.name \in DOMAIN registeredTaals
        /\ registeredTaals[entry.name].beats = entry.beats
        /\ registeredTaals[entry.name].taali = entry.taali
        /\ registeredTaals[entry.name].khali = entry.khali

\* C20: for every registered phrase, every identifier of the phrase (the
\* lower-cased primary id and each alias) looks up in the registry to that
\* phrase.
C20_EveryIdResolvesToItsPhrase ==
  \A name \in DOMAIN registeredPhrases :
    LET P == registeredPhrases[name]
    IN  \A k \in DOMAIN P.ids :
          /\ P.ids[k] \in DOMAIN registeredPhrases
          /\ registeredPhrases[P.ids[k]] = P

(***************************************************************************)
(* Claims C21-C30.                                                         *)
(***************************************************************************)
\* the sub-tokens of a list of tokens, in written order
RECURSIVE writtenSubs(_)
writtenSubs(tokens) ==
  IF tokens = <<>> THEN <<>>
  ELSE subTokens(Head(tokens)) \o writtenSubs(Tail(tokens))

\* the occurrences written with the "~" prefix in the beat texts 1..n, as
\* pairs of beat position and identifier, in beat order and then slot order
RECURSIVE writtenMarked(_)
writtenMarked(n) ==
  IF n = 0 THEN <<>>
  ELSE LET subs == writtenSubs(spanTokens(beatPartition[n]))
           flagged == SelectSeq(subs, LAMBDA sub : Head(sub \o <<" ">>) = "~")
       IN  writtenMarked(n - 1)
             \o [j \in DOMAIN flagged |-> [at |-> n, id |-> identifier(flagged[j])]]

\* C21: in a constructed Bol, markedPhrases is the sequence of the phrases
\* written with the "~" prefix, in beat order and then slot order, and
\* markedBeats holds, position for position, the beat that contains each of
\* them; a beat without a marked token is in neither list.
C21_MarkedListsFollowTilde ==
  "beats" \in DOMAIN parsedResult =>
    LET marked == writtenMarked(Len(beatPartition))
    IN  /\ Len(parsedResult.markedPhrases) = Len(marked)
        /\ Len(parsedResult.markedBeats) = Len(marked)
        /\ \A j \in DOMAIN marked :
             /\ parsedResult.markedPhrases[j] = registeredPhrases[marked[j].id]
             /\ parsedResult.markedBeats[j] = parsedResult.beats[marked[j].at]
        /\ \A k \in DOMAIN parsedResult.beats :
             (\A j \in DOMAIN marked : marked[j].at # k)
               => \A j \in DOMAIN parsedResult.markedBeats :
                    parsedResult.markedBeats[j] # parsedResult.beats[k]

\* a Bol was returned whose first beat holds two marked phrases and whose
\* second beat holds a marked phrase inside a group
C21_ReturnedWithMarkedPhrases ==
  /\ Returned
  /\ file.components.mainTheme.bhari = segTilde
  /\ Len(parsedResult.markedPhrases) >= 4
  /\ parsedResult.markedBeats[1] = parsedResult.markedBeats[2]
  /\ parsedResult.markedBeats[3].number = 2

\* the beat texts of a theme-and-variation definition: main theme, paltas
\* and tihai joined and cut at the dividers
definedTexts(definition) ==
  LET c == definition.components
      themes == <<c.mainTheme>> \o c.paltas
      RECURSIVE pairsOf(_)
      pairsOf(list) ==
        IF list = <<>> THEN <<>>
        ELSE <<Head(list).bhari, khaliOf(Head(list))>> \o pairsOf(Tail(list))
  IN  Split(Join(pairsOf(themes) \o <<c.tihai>>, "|"), "|")

\* the BPM a speed value of a definition stands for under the registry
definedBPM(val) == IF val.kind = "str" THEN registeredSpeeds[val.s].generator ELSE val.n

\* the BPM the definition gives to beat k: <<bpm>>, or <<>> if it gives none
definedSpeed(definition, k) ==
  IF definition.speed.kind # "dict" THEN <<definedBPM(definition.speed)>>
  ELSE LET items == definition.speed.items
           inside(j) == LET bounds == Split(items[j].key, "-")
                        IN  IntOf(bounds[1]) <= k /\ k < IntOf(bounds[2])
           hits == {j \in DOMAIN items : inside(j)}
       IN  IF hits = {} THEN <<>>
           ELSE <<definedBPM(items[CHOOSE j \in hits : \A other \in hits : j <= other].val)>>

\* the beat at position k as the definition and the registries determine it
definedBeat(definition, k) ==
  LET cycle == registeredTaals[definition.taal]
      subs == writtenSubs(spanTokens(definedTexts(definition)[k]))
  IN  [number |-> k,
       clap |-> IF InList(k % cycle.beats, cycle.taali) THEN 1
                ELSE IF InList(k % cycle.beats, cycle.khali) THEN -1 ELSE 0,
       saam |-> (k - 1) % cycle.beats = 0,
       phrases |-> statedPairs(spanTokens(definedTexts(definition)[k])),
       speed |-> definedSpeed(definition, k)[1],
       markers |-> [j \in DOMAIN subs |-> IF Head(subs[j] \o <<" ">>) = "~" THEN 1 ELSE 0]]

C23_SubsequenceRangesWellFormed ==
  (method = "getSubsequence" /\ beginArg < endArg /\ ret # "none") =>
    /\ ret \notin {"UnboundLocalError", "AssertionError"}
    /\ \A k \in DOMAIN ret : ret[k].begin < ret[k].end

\* the jati field of the file is a mapping of well-formed range keys to
\* registered jati names, and the rest of the configuration is in order
jatiMappingGiven ==
  /\ file.jati.kind = "dict"
  /\ \A k \in DOMAIN file.jati.items :
       /\ fromStringAllowed(file.jati.items[k].key)
       /\ file.jati.items[k].val.kind = "str"
       /\ file.jati.items[k].val.s \in DOMAIN registeredJatis
  /\ file.type \in DOMAIN registeredTypes
  /\ file.taal \in DOMAIN registeredTaals
  /\ file.speed.kind = "int"
  /\ file.display \in VALID_NOTATIONS
  /\ schemaHolds

\* C24: when the jati of the file is an interval mapping, the configuration
\* step builds a jati table with the range keys and jati values of the jati
\* field, whatever the speed field is.
C24_JatiTableFromJatiField ==
  (pc # "start" /\ jatiMappingGiven) =>
    /\ pc # "ValueError"
    /\ jati.kind = "dict"
    /\ Len(jati.items) = Len(file.jati.items)
    /\ \A k \in DOMAIN jati.items :
         /\ jati.items[k].range = fromString(file.jati.items[k].key)
         /\ jati.items[k].value = registeredJatis[file.jati.items[k].val.s].syllables

\* C25: for every registered type, components that the type's schema
\* pre-check accepts are assembled into segments; the assembly step does not
\* fail on a field that is missing or on anything else.
C25_AcceptedComponentsAssemble ==
  (pc \notin {"start", "ValueError"} /\ schemaHolds)
    => pc \notin {"AttributeError", "NameError"}

\* C26: a Speed made from a speed-class name has a BPM that satisfies the
\* membership predicate of that class, so the class derived back from the
\* BPM is the class that was named.
C26_ClassNameRoundTrip ==
  (pc # "start" /\ speed # Unset /\ file.speed.kind = "str") =>
    /\ speed.speedClass = file.speed.s
    /\ inClassCheck(file.speed.s, speed.bpm)
    /\ getSpeedClassFromBPM(speed.bpm) = file.speed.s

tokenizable(text) ==
  \A b \in DOMAIN Split(text, "|") : tokensRegistered(Split(text, "|")[b])

\* C28: the khali segment that toKhali derives from a bhari whose tokens are
\* all registered identifiers has as many beats as the bhari and only tokens
\* that are registered identifiers.
C28_InferredKhaliTokenizable ==
  ( /\ pc \in pastDivisibility \cup {"divisibility", "AssertionError: taal"}
    /\ compositionType.assembler = "expansionaryAssembler"
    /\ file.components.mainTheme.khali = <<"I", "n", "f", "e", "r">>
    /\ tokenizable(file.components.mainTheme.bhari) )
  => /\ Count(segmentList[2], "|") = Count(segmentList[1], "|")
     /\ tokenizable(segmentList[2])

\* the divider-separated beat texts of the assembled beat-string
assembledTexts == Split(Join(segmentList, "|"), "|")

\* C29: a returned Bol has as many beats as the assembled beat-string has
\* divider-separated beat texts, that number is a multiple of the taal's beat
\* count, and the k-th beat has number k and holds the phrases that the tokens
\* of the k-th beat text name, in their written order.
C29_BeatsFollowTexts ==
  Returned =>
    /\ Len(parsedResult.beats) = Len(assembledTexts)
    /\ Len(parsedResult.beats) = Count(Join(segmentList, "|"), "|") + 1
    /\ Len(parsedResult.beats) % taal.beats = 0
    /\ \A k \in DOMAIN parsedResult.beats :
         LET subs == writtenSubs(spanTokens(assembledTexts[k]))
         IN  /\ parsedResult.beats[k].number = k
             /\ Len(parsedResult.beats[k].phrases) = Len(subs)
             /\ \A j \in DOMAIN subs :
                  parsedResult.beats[k].phrases[j][1]
                    = registeredPhrases[identifier(subs[j])]

\* a Bol of two cycles of a three-beat taal was returned, its last beat
\* holding three different phrases
C29_ReturnedTwoCycles ==
  /\ Returned
  /\ taal.beats = 3
  /\ Len(parsedResult.beats) = 6
  /\ parsedResult.beats[6].number = 6
  /\ Len(parsedResult.beats[6].phrases) = 3
  /\ parsedResult.beats[6].phrases[1][1] # parsedResult.beats[6].phrases[3][1]

\* the Bol holds an occurrence of the phrase the vocabulary registers for
\* silence
holdsSilence(bol) ==
  \E k \in DOMAIN bol.beats : \E j \in DOMAIN bol.beats[k].phrases :
    bol.beats[k].phrases[j][1] = registeredPhrases[<<"s">>]

\* C30: on a Bol built for a Bedam Tihai or a Damdaar Tihai the post-check
\* returns a value, and its silence test holds exactly for the Bols that hold
\* an occurrence of the registered silence phrase (so that Bedam returns false
\* with silence and Damdaar returns true only with silence).
C30_SilenceDecidesTihaiKind ==
  ( /\ pc \in {"returned", "AttributeError: mainCheck"}
    /\ file.type \in {"Bedam Tihai", "Damdaar Tihai"} )
  => /\ pc = "returned"
     /\ silenceInIds(parsedResult) <=> holdsSilence(parsedResult)
====
